---------------------------- MODULE Spec2Model ----------------------------
(***************************************************************************)
(* ClauseSync (src/app.py): the contract-review pipeline.                  *)
(*                                                                         *)
(*   split_text_into_chunks   the Chunker                                  *)
(*   generate_chat_completion the Completion Client                        *)
(*   merge_json_responses     the Response Merger                          *)
(*   analyze_contract         the Orchestrator                             *)
(*   the module-level upload and review flow                               *)
(*                                                                         *)
(* Three specifications share the actions:                                 *)
(*   SpecChunker  a direct call split_text_into_chunks(text, max_tokens)   *)
(*   SpecMerger   a direct call merge_json_responses(json_responses)       *)
(*   Spec         one run of the script: upload, checks, review            *)
(*                                                                         *)
(* A string is a sequence of runs, a run being n >= 1 copies of one         *)
(* character: "aab c" is <<Run("a", 2), Run("b", 1), Run(" ", 1),          *)
(* Run("c", 1)>>.  A Python exception that leaves a function is the        *)
(* position pc = "raised", with its type and origin in exc.                *)
(***************************************************************************)
EXTENDS Integers, Sequences, FiniteSets, TLC

VARIABLES
    pc,               \* position of the flow
    uploaded_file,    \* the upload widget's value (NoFile: nothing uploaded)
    button,           \* st.button("Start AI Review") in this run
    secrets,          \* whether st.secrets holds api.key
    text,             \* contract_text / split_text_into_chunks' text
    max_tokens,       \* split_text_into_chunks' max_tokens
    words,            \* text.split()
    widx,             \* position of "for word in words"
    current_chunk,    \* words of the candidate chunk
    chunks,           \* finished chunks, each a joined string
    cidx,             \* position of "for chunk in chunks"
    inflight,         \* completion requests posted and not yet answered
    requests,         \* history: the chunk index of every request posted
    replies,          \* history: what each completion call ended with
    analysis_results, \* analyze_contract's list of replies
    json_responses,   \* merge_json_responses' argument
    ridx,             \* position of "for response in json_responses"
    merged_result,    \* merge_json_responses' aggregate
    errors,           \* every st.error shown, in order
    exc               \* the exception raised in this run, if any, and where

vars == <<pc, uploaded_file, button, secrets, text, max_tokens, words, widx,
          current_chunk, chunks, cidx, inflight, requests, replies,
          analysis_results, json_responses, ridx, merged_result, errors, exc>>

chunkerVars == <<text, max_tokens, words, widx, current_chunk, chunks>>
clientVars  == <<cidx, inflight, requests, replies, analysis_results>>
mergerVars  == <<json_responses, ridx, merged_result>>
uploadVars  == <<uploaded_file, button, secrets>>

-----------------------------------------------------------------------------
(* Bounds of the model. *)

\* longest text handed to a direct call of split_text_into_chunks
MaxTextLen == 5
\* largest max_tokens handed to a direct call of split_text_into_chunks
MaxTokens == 4
\* longest json_responses handed to a direct call of merge_json_responses
MaxResponses == 3
\* most words of an uploaded document
MaxDocWords == 2

-----------------------------------------------------------------------------
(* Exceptions, sequences and characters. *)

NoExc == [type |-> "none", from |-> "none"]
Raised(t, f) == [type |-> t, from |-> f]


Whitespace == {" ", "\n"}
Letters == {"a", "b"}

Run(c, n) == [ch |-> c, n |-> n]

\* the single characters
Chars == {Run(c, 1) : c \in Letters \cup Whitespace}

\* str.isspace() of the run's character
IsSpace(r) == r.ch \in Whitespace

\* len(s)
RECURSIVE StrLen(_)
StrLen(s) == IF s = <<>> THEN 0 ELSE Head(s).n + StrLen(Tail(s))

\* the k-th smallest element of a set of integers
Nth(S, k) == CHOOSE x \in S : Cardinality({y \in S : y < x}) = k - 1

RECURSIVE Flatten(_)
Flatten(ss) == IF ss = <<>> THEN <<>> ELSE Head(ss) \o Flatten(Tail(ss))

\* every sequence over S of length at most n
SeqsUpTo(S, n) == UNION {[1..k -> S] : k \in 0..n}

-----------------------------------------------------------------------------
(* split_text_into_chunks *)

WordStarts(t) ==
    {i \in 1..Len(t) : ~IsSpace(t[i]) /\ (i = 1 \/ IsSpace(t[i - 1]))}

WordEnds(t) ==
    {i \in 1..Len(t) : ~IsSpace(t[i]) /\ (i = Len(t) \/ IsSpace(t[i + 1]))}

\* str.split(): the maximal stretches of non-whitespace, in order
Split(t) ==
    [k \in 1..Cardinality(WordStarts(t)) |->
        SubSeq(t, Nth(WordStarts(t), k), Nth(WordEnds(t), k))]

\* " ".join(ws)
RECURSIVE Join(_)
Join(ws) ==
    IF ws = <<>> THEN <<>>
    ELSE IF Len(ws) = 1 THEN ws[1]
    ELSE ws[1] \o <<Run(" ", 1)>> \o Join(Tail(ws))

OverCapLoose(s, mt) == 4 * StrLen(s) > 3 * mt + 4

\* len(s) > max_tokens * 0.75
OverCap(s, mt) == 4 * StrLen(s) > 3 * mt

\* words = text.split(); chunks = []; current_chunk = []
EnterSplit(t, mt) ==
    /\ text' = t
    /\ max_tokens' = mt
    /\ words' = Split(t)
    /\ widx' = 1
    /\ current_chunk' = <<>>
    /\ chunks' = <<>>

\* one pass of "for word in words"
SplitWord ==
    /\ pc = "split_loop"
    /\ widx <= Len(words)
    /\ LET cc == Append(current_chunk, words[widx]) IN
         IF OverCap(Join(cc), max_tokens)
         THEN /\ chunks' = Append(chunks, Join(cc))
              /\ current_chunk' = <<>>
         ELSE /\ chunks' = chunks
              /\ current_chunk' = cc
    /\ widx' = widx + 1
    /\ UNCHANGED <<pc, text, max_tokens, words>>
    /\ UNCHANGED <<uploadVars, clientVars, mergerVars, errors, exc>>

SplitReturnNoFlush ==
    /\ pc = "split_loop"
    /\ widx > Len(words)
    /\ pc' = "chunked"
    /\ UNCHANGED <<text, max_tokens, words, widx, current_chunk, chunks>>
    /\ UNCHANGED <<uploadVars, clientVars, mergerVars, errors, exc>>

\* the loop is over: the trailing candidate, and return chunks
SplitReturn ==
    /\ pc = "split_loop"
    /\ widx > Len(words)
    /\ chunks' = IF current_chunk # <<>>
                 THEN Append(chunks, Join(current_chunk))
                 ELSE chunks
    /\ pc' = "chunked"
    /\ UNCHANGED <<text, max_tokens, words, widx, current_chunk>>
    /\ UNCHANGED <<uploadVars, clientVars, mergerVars, errors, exc>>

-----------------------------------------------------------------------------
(* ChunkResults.  A reply text is held as what json.loads makes of it:     *)
(*   kind "invalid"  not JSON, json.loads raises JSONDecodeError           *)
(*   kind "empty"    the empty string, not JSON either, and falsy          *)
(*   kind "scalar"   JSON that is no container (null, a number, true)      *)
(*   kind "object"   a JSON object; data maps the keys it has              *)
(* A clause entry is a bare string ("s1") or an object with clause_name    *)
(* and description ("d1", "d2").                                           *)

RiskLevels == {"high_risk_clauses", "medium_risk_clauses", "low_risk_clauses"}
ComplianceKeys == {"gdpr", "data_protection", "intellectual_property"}

EmptyObj == [k \in {} |-> <<>>]

Obj(d) == [kind |-> "object", data |-> d]

InvalidReply == [kind |-> "invalid", data |-> EmptyObj]
EmptyReply == [kind |-> "empty", data |-> EmptyObj]
ScalarReply == [kind |-> "scalar", data |-> EmptyObj]

ObjectReplies ==
    { Obj(EmptyObj),
      Obj("compliance" :> [k \in ComplianceKeys |-> "Non-compliant"]),
      Obj("compliance" :> [k \in ComplianceKeys |-> "Compliant"]),
      Obj("compliance" :> ("gdpr" :> "Non-compliant")),
      Obj("compliance" :> ("gdpr" :> "Compliant"
                           @@ "data_protection" :> "Partially compliant"
                           @@ "intellectual_property" :> "Non-compliant")),
      Obj("risk_analysis" :> ("high_risk_clauses" :> <<"s1">>
                              @@ "medium_risk_clauses" :> <<>>)
          @@ "key_clauses" :> <<"d1">>),
      Obj("risk_analysis" :> ("low_risk_clauses" :> <<"d2", "s1">>)
          @@ "compliance" :> ("intellectual_property" :> "Non-compliant")),
      Obj("key_clauses" :> <<"d2", "s1">>) }

Replies == {InvalidReply, EmptyReply, ScalarReply} \cup ObjectReplies

\* json.loads(response) returns (no JSONDecodeError)
Parseable(r) == r.kind \in {"scalar", "object"}

\* bool(reply): a non-empty string
Truthy(r) == r.kind # "empty"

-----------------------------------------------------------------------------
(* merge_json_responses *)

DefaultReport ==
    [risk_analysis |-> [l \in RiskLevels |-> <<>>],
     compliance |-> [k \in ComplianceKeys |-> "Compliant"],
     key_clauses |-> <<>>]

ExtendReplace(list, more) == more

\* list.extend(more)
Extend(list, more) == list \o more

DowngradeAssign(cur, val) == val

DowngradeLastWins(cur, val) ==
    IF val \in {"Compliant", "Non-compliant"} THEN val ELSE cur

\* if val == "Non-compliant": cur = "Non-compliant"
Downgrade(cur, val) == IF val = "Non-compliant" THEN "Non-compliant" ELSE cur

MergeRisk(m, data) ==
    IF "risk_analysis" \in DOMAIN data
    THEN [l \in RiskLevels |->
            IF l \in DOMAIN data["risk_analysis"]
            THEN Extend(m.risk_analysis[l], data["risk_analysis"][l])
            ELSE m.risk_analysis[l]]
    ELSE m.risk_analysis

MergeCompliance(m, data) ==
    IF "compliance" \in DOMAIN data
    THEN [k \in ComplianceKeys |->
            IF k \in DOMAIN data["compliance"]
            THEN Downgrade(m.compliance[k], data["compliance"][k])
            ELSE m.compliance[k]]
    ELSE m.compliance

MergeKeyClauses(m, data) ==
    IF "key_clauses" \in DOMAIN data
    THEN Extend(m.key_clauses, data["key_clauses"])
    ELSE m.key_clauses

\* the body of "for response in json_responses" on a JSON object
MergeData(m, data) ==
    [risk_analysis |-> MergeRisk(m, data),
     compliance |-> MergeCompliance(m, data),
     key_clauses |-> MergeKeyClauses(m, data)]

\* what one pass of the loop does with response r:
\*   "warned"  JSONDecodeError caught, st.error, next response
\*   "raised"  '"risk_analysis" in data' on a non-container: TypeError
\*   "merged"  the object's fields folded into m
MergeStep(m, r) ==
    IF ~Parseable(r) THEN [status |-> "warned", merged |-> m]
    ELSE IF r.kind = "scalar" THEN [status |-> "raised", merged |-> m]
    ELSE [status |-> "merged", merged |-> MergeData(m, r.data)]

\* merge_json_responses as a function: "returned" with the Report, or
\* "raised" where a pass raised
RECURSIVE MergeFrom(_, _)
MergeFrom(m, rs) ==
    IF rs = <<>> THEN [status |-> "returned", merged |-> m]
    ELSE LET s == MergeStep(m, Head(rs)) IN
         IF s.status = "raised" THEN s ELSE MergeFrom(s.merged, Tail(rs))

MergeAll(rs) == MergeFrom(DefaultReport, rs)

ParseWarning(i) == [msg |-> "Failed to parse JSON response", about |-> i]

\* merged_result = {...default...}
EnterMerge(rs) ==
    /\ json_responses' = rs
    /\ ridx' = 1
    /\ merged_result' = DefaultReport

\* one pass of "for response in json_responses"
MergeResponse ==
    /\ pc = "merge_loop"
    /\ ridx <= Len(json_responses)
    /\ LET s == MergeStep(merged_result, json_responses[ridx]) IN
         /\ merged_result' = s.merged
         /\ errors' = IF s.status = "warned"
                      THEN Append(errors, ParseWarning(ridx))
                      ELSE errors
         /\ IF s.status = "raised"
            THEN /\ pc' = "raised"
                 /\ exc' = Raised("TypeError", "merge_json_responses")
                 /\ ridx' = ridx
            ELSE /\ pc' = pc
                 /\ exc' = exc
                 /\ ridx' = ridx + 1
    /\ UNCHANGED json_responses
    /\ UNCHANGED <<uploadVars, chunkerVars, clientVars>>

\* return merged_result
MergeReturn ==
    /\ pc = "merge_loop"
    /\ ridx > Len(json_responses)
    /\ pc' = "merge_done"
    /\ UNCHANGED <<mergerVars, errors, exc>>
    /\ UNCHANGED <<uploadVars, chunkerVars, clientVars>>

-----------------------------------------------------------------------------
(* generate_chat_completion, as analyze_contract's loop awaits it.  A call *)
(* is one posted request and one of the ways it can end.                   *)

\* split_text_into_chunks(text, max_tokens=4000)
DefaultMaxTokens == 4000

HttpWarning(i) == [msg |-> "HTTP Error", about |-> i]
RequestWarning(i) == [msg |-> "API Request Error", about |-> i]

\* how the call for chunk i ended: result "text" (a string was returned),
\* "none" (None was returned) or "raised"; warned: it called st.error
Ended(i, result, warned, reply) ==
    [index |-> i, result |-> result, warned |-> warned, reply |-> reply]

\* the call is over and the loop goes to the next chunk:
\* "if analysis_result: analysis_results.append(analysis_result)"
NextChunk(appended) ==
    /\ analysis_results' = analysis_results \o appended
    /\ cidx' = cidx + 1
    /\ inflight' = inflight - 1
    /\ pc' = "chunked"
    /\ exc' = exc

\* an exception leaves generate_chat_completion and analyze_contract
CallRaises(t) ==
    /\ pc' = "raised"
    /\ exc' = Raised(t, "generate_chat_completion")
    /\ inflight' = inflight - 1
    /\ replies' = Append(replies, Ended(cidx, "raised", FALSE, EmptyReply))
    /\ UNCHANGED <<cidx, analysis_results, errors>>

\* "for chunk in chunks": the next chunk's request is posted
SendRequest ==
    /\ pc = "chunked"
    /\ cidx <= Len(chunks)
    /\ requests' = Append(requests, [index |-> cidx, chunk |-> chunks[cidx]])
    /\ inflight' = inflight + 1
    /\ pc' = "awaiting"
    /\ UNCHANGED <<cidx, replies, analysis_results, errors, exc>>
    /\ UNCHANGED <<uploadVars, chunkerVars, mergerVars>>

\* raise_for_status() raises HTTPError (4xx, 5xx): warned, None
HttpErrorResponse ==
    /\ pc = "awaiting"
    /\ errors' = Append(errors, HttpWarning(cidx))
    /\ replies' = Append(replies, Ended(cidx, "none", TRUE, EmptyReply))
    /\ NextChunk(<<>>)
    /\ UNCHANGED requests
    /\ UNCHANGED <<uploadVars, chunkerVars, mergerVars>>

\* requests.post raises a RequestException (connection, timeout): warned, None
TransportFailure ==
    /\ pc = "awaiting"
    /\ errors' = Append(errors, RequestWarning(cidx))
    /\ replies' = Append(replies, Ended(cidx, "none", TRUE, EmptyReply))
    /\ NextChunk(<<>>)
    /\ UNCHANGED requests
    /\ UNCHANGED <<uploadVars, chunkerVars, mergerVars>>

\* a 2xx response whose choices[0].message.content is the string r
ContentResponse ==
    /\ pc = "awaiting"
    /\ \E r \in Replies :
         /\ replies' = Append(replies, Ended(cidx, "text", FALSE, r))
         /\ NextChunk(IF Truthy(r) THEN <<r>> ELSE <<>>)
    /\ UNCHANGED <<requests, errors>>
    /\ UNCHANGED <<uploadVars, chunkerVars, mergerVars>>

\* a 2xx response whose choices[0].message.content is null: None is returned
NullContent ==
    /\ pc = "awaiting"
    /\ replies' = Append(replies, Ended(cidx, "none", FALSE, EmptyReply))
    /\ NextChunk(<<>>)
    /\ UNCHANGED <<requests, errors>>
    /\ UNCHANGED <<uploadVars, chunkerVars, mergerVars>>

\* a 2xx response whose JSON body has no choices[0].message.content:
\* KeyError (IndexError, TypeError), which no except clause names
MalformedBody ==
    /\ pc = "awaiting"
    /\ CallRaises("KeyError")
    /\ UNCHANGED requests
    /\ UNCHANGED <<uploadVars, chunkerVars, mergerVars>>

\* a 2xx response whose body is not JSON: response.json() raises.  In
\* requests >= 2.27 the error is a RequestException (warned, None); before,
\* a plain ValueError, which no except clause names
NonJsonBody ==
    /\ pc = "awaiting"
    /\ \/ /\ errors' = Append(errors, RequestWarning(cidx))
          /\ replies' = Append(replies, Ended(cidx, "none", TRUE, EmptyReply))
          /\ NextChunk(<<>>)
       \/ CallRaises("ValueError")
    /\ UNCHANGED requests
    /\ UNCHANGED <<uploadVars, chunkerVars, mergerVars>>

\* the loop is over: return merge_json_responses(analysis_results)
CallMerge ==
    /\ pc = "chunked"
    /\ cidx > Len(chunks)
    /\ EnterMerge(analysis_results)
    /\ pc' = "merge_loop"
    /\ UNCHANGED <<errors, exc>>
    /\ UNCHANGED <<uploadVars, chunkerVars, clientVars>>

-----------------------------------------------------------------------------
(* The module-level flow: upload, size check, extraction, button,          *)
(* credential, analyze_contract, display.                                  *)

\* 200 * 1024
SizeLimit == 200 * 1024

PdfType == "application/pdf"
TxtType == "text/plain"

\* a file's fields: type, size (bytes), the text its extraction or decoding
\* gives, and readable: pdfplumber reads it / its bytes are UTF-8
NoFile == [type |-> "none", size |-> 0, text |-> <<>>, readable |-> TRUE]

\* the k-th word of a document: longer than the default cap, so that it
\* closes a chunk
DocWord(k) == <<Run("a", (3 * DefaultMaxTokens) \div 4), Run("b", k)>>

DocText(n) == Join([k \in 1..n |-> DocWord(k)])

DocTexts == {DocText(n) : n \in 0..MaxDocWords}

\* a PDF's size says nothing of its text; a text file is at least as many
\* bytes as it has characters, so the oversized uploads here are PDFs
PdfFiles ==
    [type : {PdfType}, size : {SizeLimit, SizeLimit + 1},
     text : DocTexts, readable : BOOLEAN]

TxtFiles ==
    {[type |-> TxtType, size |-> StrLen(t), text |-> t, readable |-> r] :
        t \in DocTexts, r \in BOOLEAN}

Uploads == {NoFile} \cup PdfFiles \cup TxtFiles

SizeWarning == [msg |-> "File size exceeds 200 KB", about |-> 0]
PdfWarning == [msg |-> "Error extracting text from PDF", about |-> 0]
KeyWarning == [msg |-> "API key not found in secrets.toml", about |-> 0]
FileWarning == [msg |-> "Error processing the file", about |-> 0]

OversizedNever(f) == FALSE

\* uploaded_file.size > 200 * 1024
Oversized(f) == f.size > SizeLimit

\* "if uploaded_file is not None" fails: nothing to do in this run
NoUpload ==
    /\ pc = "start"
    /\ uploaded_file = NoFile
    /\ pc' = "done"
    /\ UNCHANGED <<errors, exc>>
    /\ UNCHANGED <<uploadVars, chunkerVars, clientVars, mergerVars>>

\* the size check, and the extraction of the text of a file that passes it
CheckAndExtract ==
    /\ pc = "start"
    /\ uploaded_file # NoFile
    /\ IF Oversized(uploaded_file)
       THEN /\ errors' = Append(errors, SizeWarning)
            /\ pc' = "done"
            /\ UNCHANGED <<text, exc>>
       ELSE IF uploaded_file.type = PdfType
       THEN \* extract_text_from_pdf: an error is shown, the text so far kept
            /\ text' = uploaded_file.text
            /\ errors' = IF uploaded_file.readable THEN errors
                         ELSE Append(errors, PdfWarning)
            /\ pc' = "button"
            /\ exc' = exc
       ELSE IF uploaded_file.readable
       THEN \* uploaded_file.read().decode("utf-8")
            /\ text' = uploaded_file.text
            /\ pc' = "button"
            /\ UNCHANGED <<errors, exc>>
       ELSE /\ pc' = "raised"
            /\ exc' = Raised("UnicodeDecodeError", "decode")
            /\ UNCHANGED <<text, errors>>
    /\ UNCHANGED <<max_tokens, words, widx, current_chunk, chunks>>
    /\ UNCHANGED <<uploadVars, clientVars, mergerVars>>

\* "if st.button(...)", and under it the credential: found, or st.error and
\* st.stop()
StartReview ==
    /\ pc = "button"
    /\ IF ~button THEN pc' = "done" /\ errors' = errors
       ELSE IF secrets THEN pc' = "analyze" /\ errors' = errors
       ELSE pc' = "done" /\ errors' = Append(errors, KeyWarning)
    /\ exc' = exc
    /\ UNCHANGED <<uploadVars, chunkerVars, clientVars, mergerVars>>

\* asyncio.run(analyze_contract(api_key, contract_text)), to the call
\* split_text_into_chunks(contract_text)
AnalyzeContract ==
    /\ pc = "analyze"
    /\ EnterSplit(text, DefaultMaxTokens)
    /\ analysis_results' = <<>>
    /\ cidx' = 1
    /\ pc' = "split_loop"
    /\ UNCHANGED <<inflight, requests, replies, errors, exc>>
    /\ UNCHANGED <<uploadVars, mergerVars>>

\* a clause entry that is a dict
IsDict(e) == e \in {"d1", "d2"}

\* analyze_contract has returned the Report: display_analysis_result, where
\* clause['clause_name'] on a bare string in key_clauses is a TypeError
Display ==
    /\ pc = "merge_done"
    /\ IF \A i \in 1..Len(merged_result.key_clauses) :
             IsDict(merged_result.key_clauses[i])
       THEN pc' = "done" /\ exc' = exc
       ELSE pc' = "raised" /\ exc' = Raised("TypeError", "display")
    /\ UNCHANGED errors
    /\ UNCHANGED <<uploadVars, chunkerVars, clientVars, mergerVars>>

\* "except Exception as e: st.error(...)" around the whole flow
OuterExcept ==
    /\ pc = "raised"
    /\ errors' = Append(errors, FileWarning)
    /\ pc' = "done"
    /\ UNCHANGED exc
    /\ UNCHANGED <<uploadVars, chunkerVars, clientVars, mergerVars>>

-----------------------------------------------------------------------------
(* The specifications. *)

IdleUpload == uploaded_file = NoFile /\ button = FALSE /\ secrets = FALSE

IdleChunker ==
    /\ text = <<>>
    /\ max_tokens = DefaultMaxTokens
    /\ words = <<>>
    /\ widx = 1
    /\ current_chunk = <<>>
    /\ chunks = <<>>

IdleClient ==
    /\ cidx = 1
    /\ inflight = 0
    /\ requests = <<>>
    /\ replies = <<>>
    /\ analysis_results = <<>>

IdleMerger == json_responses = <<>> /\ ridx = 1 /\ merged_result = DefaultReport

\* a budget of tokens: a natural number
TokenCaps == 0..MaxTokens

\* split_text_into_chunks(t, mt) has been entered
InitChunker ==
    /\ pc = "split_loop"
    /\ \E t \in SeqsUpTo(Chars, MaxTextLen), mt \in TokenCaps :
         /\ text = t
         /\ max_tokens = mt
         /\ words = Split(t)
    /\ widx = 1
    /\ current_chunk = <<>>
    /\ chunks = <<>>
    /\ IdleUpload /\ IdleClient /\ IdleMerger
    /\ errors = <<>>
    /\ exc = NoExc

NextChunker == SplitWord \/ SplitReturn

SpecChunker == InitChunker /\ [][NextChunker]_vars

\* merge_json_responses(rs) has been entered
InitMerger ==
    /\ pc = "merge_loop"
    /\ json_responses \in SeqsUpTo(Replies, MaxResponses)
    /\ ridx = 1
    /\ merged_result = DefaultReport
    /\ IdleUpload /\ IdleChunker /\ IdleClient
    /\ errors = <<>>
    /\ exc = NoExc

NextMerger == MergeResponse \/ MergeReturn

SpecMerger == InitMerger /\ [][NextMerger]_vars

\* the script starts a run
Init ==
    /\ pc = "start"
    /\ uploaded_file \in Uploads
    /\ button \in BOOLEAN
    /\ secrets \in BOOLEAN
    /\ IdleChunker /\ IdleClient /\ IdleMerger
    /\ errors = <<>>
    /\ exc = NoExc

Next ==
    \/ NoUpload
    \/ CheckAndExtract
    \/ StartReview
    \/ AnalyzeContract
    \/ SplitWord
    \/ SplitReturn
    \/ SendRequest
    \/ HttpErrorResponse
    \/ TransportFailure
    \/ MalformedBody
    \/ ContentResponse
    \/ NullContent
    \/ NonJsonBody
    \/ CallMerge
    \/ MergeResponse
    \/ MergeReturn
    \/ Display
    \/ OuterExcept

Spec == Init /\ [][Next]_vars

-----------------------------------------------------------------------------
(* Properties of split_text_into_chunks, under SpecChunker. *)

\* positions of t kept by whitespace normalisation: every run of a word,
\* and the first whitespace run after a word that is followed by another
\* word
KeptPositions(t) ==
    {i \in 1..Len(t) :
        \/ ~IsSpace(t[i])
        \/ /\ i > 1
           /\ ~IsSpace(t[i - 1])
           /\ \E j \in (i + 1)..Len(t) : ~IsSpace(t[j])}

\* t with every run of whitespace made one space and none at either end
Normalize(t) ==
    [k \in 1..Cardinality(KeptPositions(t)) |->
        LET r == t[Nth(KeptPositions(t), k)] IN
        IF IsSpace(r) THEN Run(" ", 1) ELSE r]

WordsOfChunks == Flatten([i \in 1..Len(chunks) |-> Split(chunks[i])])

LastWord(chunk) == Split(chunk)[Len(Split(chunk))]

\* C1: when split_text_into_chunks returns, the chunks joined by single
\* spaces are the whitespace-normalised text, and the words of the chunks,
\* chunk after chunk, are the words of the text: each once, in its place,
\* none dropped, duplicated or cut at a chunk boundary.
C1_ChunksKeepWords ==
    pc = "chunked" =>
        /\ Join(chunks) = Normalize(text)
        /\ Join(chunks) = Join(Split(text))
        /\ WordsOfChunks = Split(text)

\* a text whose whitespace is not normal, cut into several chunks, one of
\* them of two words
C1_Witness ==
    /\ pc = "chunked"
    /\ Len(chunks) >= 2
    /\ \E i \in 1..Len(chunks) : Len(Split(chunks[i])) >= 2
    /\ Join(chunks) # text

\* C2 as claimed: every chunk is at most max_tokens * 0.75 characters
\* plus the length of the last word added to it.
C2_OneWordOvershoot ==
    \A i \in 1..Len(chunks) :
        4 * StrLen(chunks[i])
            <= 3 * max_tokens + 4 * StrLen(LastWord(chunks[i]))

\* C2 amended: a chunk of more than one word is at most max_tokens * 0.75
\* characters plus the joining space plus the length of its last word; a
\* chunk of one word is that word.
C2_OvershootWithSpace ==
    \A i \in 1..Len(chunks) :
        \/ Split(chunks[i]) = <<chunks[i]>>
        \/ 4 * StrLen(chunks[i])
             <= 3 * max_tokens + 4 * (1 + StrLen(LastWord(chunks[i])))

\* a chunk of several words that is exactly cap + 1 + its last word long
C2_Witness ==
    /\ pc = "chunked"
    /\ \E i \in 1..Len(chunks) :
         /\ Len(Split(chunks[i])) >= 2
         /\ 4 * StrLen(chunks[i])
              = 3 * max_tokens + 4 * (1 + StrLen(LastWord(chunks[i])))

-----------------------------------------------------------------------------
(* Properties of merge_json_responses, under SpecMerger. *)

\* the value result r carries for compliance field k, "absent" if none
Carries(r, k) ==
    IF /\ r.kind = "object"
       /\ "compliance" \in DOMAIN r.data
       /\ k \in DOMAIN r.data["compliance"]
    THEN r.data["compliance"][k]
    ELSE "absent"

\* C3: every compliance field is "Compliant" before the first result is
\* folded, and no step of the fold, whatever the result carries, takes a
\* field that is "Non-compliant" to another value.
C3_ComplianceOnlyDowngrades ==
    /\ \A k \in ComplianceKeys : merged_result.compliance[k] = "Compliant"
    /\ [][\A k \in ComplianceKeys :
            merged_result.compliance[k] = "Non-compliant"
                => merged_result'.compliance[k] = "Non-compliant"]_vars

\* a result carrying gdpr "Compliant" has just been folded into an
\* aggregate whose gdpr was "Non-compliant", and it still is
C3_Witness ==
    /\ pc = "merge_loop"
    /\ ridx = 3
    /\ Carries(json_responses[1], "gdpr") = "Non-compliant"
    /\ Carries(json_responses[2], "gdpr") = "Compliant"
    /\ merged_result.compliance["gdpr"] = "Non-compliant"

Permuted(rs, p) == [i \in 1..Len(rs) |-> rs[p[i]]]

\* C4: folding the results in any other order ends the same way: where
\* merge_json_responses returns, it returns the same compliance mapping for
\* every permutation of json_responses (and where it raises, it raises for
\* every permutation).
C4_ComplianceOrderIndependent ==
    pc \in {"merge_done", "raised"} =>
        \A p \in Permutations(1..Len(json_responses)) :
            LET o == MergeAll(Permuted(json_responses, p)) IN
            IF pc = "merge_done"
            THEN /\ o.status = "returned"
                 /\ o.merged.compliance = merged_result.compliance
            ELSE o.status = "raised"

\* three results were merged of which one carries gdpr "Compliant" and a
\* later one "Non-compliant", so that some orders downgrade first
C4_Witness ==
    /\ pc = "merge_done"
    /\ Len(json_responses) = 3
    /\ Carries(json_responses[1], "gdpr") = "Compliant"
    /\ Carries(json_responses[3], "gdpr") = "Non-compliant"
    /\ Carries(json_responses[2], "data_protection") = "Partially compliant"

Unparseable == {i \in 1..Len(json_responses) : ~Parseable(json_responses[i])}

ParseWarnings ==
    [k \in 1..Cardinality(Unparseable) |-> ParseWarning(Nth(Unparseable, k))]

\* C5 as claimed: of a sequence with unparseable results, each of them gets
\* its warning, and merge_json_responses ends as it does for the sequence
\* without them: it returns, and returns the same Report.
C5_UnparseableSkipped ==
    (pc \in {"merge_done", "raised"} /\ Unparseable # {}) =>
        /\ errors = ParseWarnings
        /\ pc = "merge_done"
        /\ merged_result = MergeAll(SelectSeq(json_responses, Parseable)).merged

TheLists == RiskLevels \cup {"key_clauses"}

ListOf(m, L) == IF L = "key_clauses" THEN m.key_clauses ELSE m.risk_analysis[L]

\* result r has list L
Has(r, L) ==
    /\ r.kind = "object"
    /\ IF L = "key_clauses" THEN "key_clauses" \in DOMAIN r.data
       ELSE /\ "risk_analysis" \in DOMAIN r.data
            /\ L \in DOMAIN r.data["risk_analysis"]

Got(r, L) ==
    IF L = "key_clauses" THEN r.data["key_clauses"]
    ELSE r.data["risk_analysis"][L]

\* the lists L of the results, one after the other
Concatenated(rs, L) ==
    Flatten([i \in 1..Len(rs) |-> IF Has(rs[i], L) THEN Got(rs[i], L) ELSE <<>>])

\* C9: the three risk lists and key_clauses start empty; a step of the
\* fold leaves each as it was, or, where the result has the list, as it
\* was followed by the result's list; and what merge_json_responses
\* returns is, list by list, the concatenation of the results' lists in
\* order, duplicates kept.
C9_ListsOnlyGrow ==
    /\ \A L \in TheLists : ListOf(merged_result, L) = <<>>
    /\ [][\A L \in TheLists :
            ListOf(merged_result', L) =
                IF /\ pc = "merge_loop"
                   /\ ridx <= Len(json_responses)
                   /\ Has(json_responses[ridx], L)
                THEN ListOf(merged_result, L) \o Got(json_responses[ridx], L)
                ELSE ListOf(merged_result, L)]_vars
    /\ [](pc = "merge_done" =>
            \A L \in TheLists :
                ListOf(merged_result, L) = Concatenated(json_responses, L))

\* three results merged, two of them the same: its entries are there twice,
\* after a result without key_clauses left that list alone
C9_Witness ==
    /\ pc = "merge_done"
    /\ merged_result.risk_analysis["high_risk_clauses"] = <<"s1", "s1">>
    /\ merged_result.risk_analysis["low_risk_clauses"] = <<"d2", "s1">>
    /\ merged_result.key_clauses = <<"d1", "d1">>
    /\ ~Has(json_responses[2], "key_clauses")

-----------------------------------------------------------------------------
(* Properties of the review, under Spec. *)

\* analyze_contract has ended: it returned its Report, or an exception left it
AnalyzeReturned == pc = "merge_done"
AnalyzeRaised ==
    exc.from \in {"generate_chat_completion", "merge_json_responses"}

\* the calls that failed: they warned and returned None
Failed == {i \in 1..Len(replies) : replies[i].warned}

\* the reply texts of the calls that returned one, in chunk order
ReplyTexts ==
    LET got == {i \in 1..Len(replies) : replies[i].result = "text"} IN
    [k \in 1..Cardinality(got) |-> replies[Nth(got, k)].reply]

CallWarnings ==
    SelectSeq(errors, LAMBDA e : e.msg \in {"HTTP Error", "API Request Error"})

\* C6 as claimed: whichever completion calls fail, analyze_contract returns
\* a Report; the Report is the merge of the replies of the other chunks, in
\* chunk order; each failed call left one warning; and with every call
\* failed the Report is the default one.
C6_FailedChunksOmitted ==
    /\ ~AnalyzeRaised
    /\ AnalyzeReturned =>
         /\ MergeAll(ReplyTexts).status = "returned"
         /\ merged_result = MergeAll(ReplyTexts).merged
         /\ Len(CallWarnings) = Cardinality(Failed)
         /\ \A i \in Failed : \E j \in 1..Len(CallWarnings) :
                CallWarnings[j].about = replies[i].index
         /\ Cardinality(Failed) = Len(chunks) => merged_result = DefaultReport

\* C7 as claimed: every completion call ends in one of two ways: it returns
\* the reply text, or it records a warning and returns None; no exception
\* leaves it.
C7_ReplyOrWarnedNone ==
    \A i \in 1..Len(replies) :
        \/ replies[i].result = "text" /\ ~replies[i].warned
        \/ replies[i].result = "none" /\ replies[i].warned

C10_OneRequestPerChunkInOrder ==
    /\ inflight <= 1
    /\ \A j \in 1..Len(requests) :
         /\ requests[j].index = j
         /\ j <= Len(chunks)
         /\ requests[j].chunk = chunks[j]
    /\ pc \in {"merge_loop", "merge_done"} =>
         /\ Len(requests) = Len(chunks)
         /\ inflight = 0
    /\ (AnalyzeReturned \/ AnalyzeRaised) => Len(requests) = Len(chunks)
    /\ (AnalyzeReturned /\ Split(text) = <<>>) =>
         /\ requests = <<>>
         /\ merged_result = DefaultReport

=============================================================================
